---- MODULE Spec2Model ----
(***************************************************************************)
(* The activitypub mapping engine of bookwyrm: ActivityObject.to_model,    *)
(* resolve_remote_id and the celery task set_related_field                 *)
(* (bookwyrm/activitypub/base_activity.py), run by concurrent processes    *)
(* against one database and one task queue.                                *)
(*                                                                         *)
(* A process is a web worker handling an incoming activity (a top-level    *)
(* to_model or resolve_remote_id call) or a celery worker running          *)
(* set_related_field for a message of the queue.  Every step of a call     *)
(* that reads or writes the database, fetches from the network or          *)
(* dispatches a task is one action, so that the steps of different         *)
(* processes interleave.                                                   *)
(***************************************************************************)
EXTENDS Integers, Sequences, FiniteSets, TLC

\* ------------------------------------------------------------------ bounds

\* the number of top-level calls of the web workers in a behaviour
MaxCalls == 2

\* the number of deliveries of set_related_field messages in a behaviour
MaxTasks == 2

\* ----------------------------------------------------------------- domains

Procs == {"p1", "p2"}

\* remote ids of statuses, remote ids of images, and the values a payload's
\* content takes (two versions, so that an update in place is observable)
RemoteIds == {"a", "b"}
ItemIds == {"i"}
Versions == {"v1", "v2"}

\* the classes of the activity objects a web worker calls to_model on
Variants == {"Note", "Review"}

\* Status, and Review as the subclass of Status that inherits its reverse
\* fields; Image is the model the 'attachments' reverse relation leads to
OriginModels == {"Status", "Review"}

VARIABLES
    db,       \* the committed rows of the database
    queue,    \* the set_related_field messages handed to the task queue
    pc,       \* pc[p]: where process p is in its call
    call,     \* call[p]: the arguments of the call p is running
    inst,     \* inst[p]: the local 'instance' / 'result' / 'item' of p
    tx,       \* tx[p]: the rows p has written in its open transaction
    out,      \* out[p]: the value p's call returned, or the error it raised
    fetches,  \* fetches[p]: the get_data calls of p's current call
    calls,    \* the top-level calls started so far
    tasks,    \* the task deliveries so far
    self,     \* the object a method is called on, outside the engine: an
              \* ActivityObject (its class and its __dict__) or a Status
    returned  \* the method called on self last, and what it returned or raised

\* the objects in the memory of one process
memory == <<self, returned>>

vars == <<db, queue, pc, call, inst, tx, out, fetches, calls, tasks, self,
          returned>>

\* ------------------------------------------------------------ model classes

\* a row is a model instance; pk = 0 is an instance that was never saved,
\* type "None" is python's None.  content is a scalar field, tags a many to
\* many field, image an image field (the name of its file), fk the foreign
\* key of an Image or a Favorite to its status, user the foreign key of a
\* Favorite to its user
NoRow ==
    [pk |-> 0, type |-> "None", remote_id |-> "", content |-> "",
     tags |-> "", image |-> "", fk |-> 0, user |-> 0]

\* model(): a new, unsaved instance with every field at its default
NewInstance(model) == [NoRow EXCEPT !.type = model]

\* class Review(Status): the models whose rows a query on `model` returns
\* (Status.objects is an InheritanceManager)
Subclasses(model) ==
    IF model = "Status" THEN {"Status", "Review"} ELSE {model}

\* the table that holds a model's remote_id column: Review is a multi-table
\* child of Status
Table(model) ==
    CASE model \in {"Status", "Review"} -> "status"
      [] model = "Favorite" -> "favorite"
      [] model = "User" -> "user"
      [] OTHER -> "image"

\* model.activity_serializer: the activitypub class a model is converted from
ActivitySerializer(model) ==
    CASE model = "Status" -> "Note"
      [] model = "Review" -> "Review"
      [] model = "Favorite" -> "Like"
      [] model = "Image" -> "Image"
      [] model = "User" -> "Person"
      [] OTHER -> ""

\* isinstance(self, serializer) for an activity object of class `variant`:
\* activitypub.Review is a subclass of activitypub.Note
IsInstance(variant, serializer) ==
    \/ variant = serializer
    \/ variant = "Review" /\ serializer = "Note"

\* the models with an image field (Image.image, User.avatar)
HasImageField(model) == model \in {"Image", "User"}

\* Status.deserialize_reverse_fields, inherited by Review:
\* (model field name, activity field name) pairs
DeserializeReverseFields(model) ==
    IF model \in {"Status", "Review"}
    THEN <<[model_field |-> "attachments", activity_field |-> "attachment"]>>
    ELSE <<>>

\* getattr(model, 'attachments').field.model: the model that carries the
\* foreign key of the reverse relation
RelatedModel(model, model_field_name) == "Image"

\* instance.__class__.__name__.lower()
Lower(name) ==
    CASE name = "Status" -> "status"
      [] name = "Review" -> "review"
      [] name = "Image" -> "image"
      [] OTHER -> name

\* ----------------------------------------------------------------- payloads

\* an item of a status's attachment list: a bare identifier string, or the
\* inline data of an image
Items ==
    [kind : {"str", "dict"}, id : ItemIds, content : {"v1"}]

\* an activity object (and the dictionary it is built from): id, the fields
\* the model's activitypub fields read (one version stands for the scalar
\* fields and the tag list), and the attachment list of a status
StatusPayloads ==
    [id : RemoteIds, v : Versions,
     attachment : {<<>>} \cup {<<i>> : i \in Items}]

ImagePayloads == [id : ItemIds, v : {"v1"}, attachment : {<<>>}]

NoPayload == [id |-> "", v |-> "", attachment |-> <<>>]

\* the inline data of an attachment, as the payload of an Image
ItemPayload(item) == [id |-> item.id, v |-> item.content, attachment |-> <<>>]

\* what a remote server may answer for an identifier of `model`
PayloadsOf(model) ==
    IF model = "Image" THEN ImagePayloads
    ELSE {w \in StatusPayloads : w.attachment = <<>>}

\* ------------------------------------------------------------- the database

\* the rows process p reads: the committed rows, and its own writes over them
Visible(p) ==
    {r \in db : \A w \in tx[p] : w.pk # r.pk} \cup tx[p]

\* the rows of the transactions other processes have open
Uncommitted(p) == UNION {tx[q] : q \in Procs \ {p}}

\* the first primary key no row holds
FreshPk ==
    LET used == {r.pk : r \in db \cup UNION {tx[q] : q \in Procs}}
    IN  CHOOSE n \in 1..(MaxCalls + MaxTasks + 1) :
            /\ n \notin used
            /\ \A m \in 1..(MaxCalls + MaxTasks + 1) : m \notin used => n <= m


\* model.find_existing(data): the visible row of `model` (or of a subclass)
\* whose natural key, its remote_id, is the payload's id; match.first()
FindExisting(p, model, id) ==
    LET match == {r \in Visible(p) :
                    r.type \in Subclasses(model) /\ r.remote_id = id}
    IN  IF match = {} THEN NoRow
        ELSE CHOOSE r \in match : \A s \in match : r.pk <= s.pk

\* model.find_existing_by_remote_id(remote_id)
FindExistingByRemoteId(p, model, remote_id) ==
    FindExisting(p, model, remote_id)

\* (mutant) a storage layer without the uniqueness constraint
ConflictsUnchecked(w, rows) == FALSE

\* (mutant) favorites without the constraint on user and status
UniqueTogetherUnchecked(w, r) == FALSE

\* Favorite.Meta.unique_together = ('user', 'status'): "can't fav things
\* twice"
UniqueTogether(w, r) ==
    /\ w.type = "Favorite" /\ r.type = "Favorite"
    /\ r.user = w.user
    /\ r.fk = w.fk

\* the uniqueness constraints of the storage layer: row w may not share its
\* natural key, the remote_id, with another row of its table (a null
\* remote_id is no key), nor the columns its model declares unique together
Conflicts(w, rows) ==
    \E r \in rows :
        /\ r.pk # w.pk
        /\ \/ /\ w.remote_id # ""
              /\ Table(r.type) = Table(w.type)
              /\ r.remote_id = w.remote_id
           \/ UniqueTogether(w, r)

\* instance.save() as the row it writes: an INSERT under a fresh primary key
\* for an instance that has none, an UPDATE of the scalar columns otherwise
\* (the many to many rows are not the instance's to write)
SavedRow(p, instance) ==
    IF instance.pk = 0
    THEN [instance EXCEPT !.pk = FreshPk, !.tags = ""]
    ELSE LET cur == {r \in Visible(p) : r.pk = instance.pk}
         IN  [instance EXCEPT
                !.tags = IF cur = {} THEN ""
                         ELSE (CHOOSE r \in cur : TRUE).tags]

\* a write waits while another open transaction holds the row, or a row the
\* uniqueness constraint would check it against
Waits(p, w) ==
    \/ Conflicts(w, Uncommitted(p))
    \/ \E r \in Uncommitted(p) : r.pk = w.pk

\* tx[p] with row w written
Written(p, w) == {r \in tx[p] : r.pk # w.pk} \cup {w}

\* the database after p's transaction commits
Committed(p) == {r \in db : \A w \in tx[p] : w.pk # r.pk} \cup tx[p]

\* ------------------------------------------------------ calls and results

\* python's None
None == "None"

\* dataclasses.MISSING
MISSING == "MISSING"

\* no object yet
NoObject == [class |-> None]

\* no method called yet
NoReturn == [op |-> "", args |-> None, kind |-> "", value |-> None]

NoMsg ==
    [model |-> "", origin_model |-> "", related_field_name |-> "",
     related_remote_id |-> "",
     data |-> [kind |-> "", id |-> "", content |-> ""]]

NoCall ==
    [op |-> "", model |-> "", variant |-> "", wire |-> NoPayload,
     save |-> TRUE, refresh |-> FALSE, remote_id |-> "", origin |-> 0,
     msg |-> NoMsg]

NoOut ==
    [kind |-> "", value |-> NoRow, via |-> "", model |-> "",
     remote_id |-> ""]

\* a call returned `value`; via names the return statement
Returned(value, via) ==
    [kind |-> "return", value |-> value, via |-> via, model |-> "",
     remote_id |-> ""]

\* an exception of class `kind`
Raised(kind, model, remote_id) ==
    [kind |-> kind, value |-> NoRow, via |-> "", model |-> model,
     remote_id |-> remote_id]

\* (mutant) the error without the identifier it failed on
ResolutionErrorWithoutId(model, remote_id) ==
    Raised("ActivitySerializerError", model, "")

\* ActivitySerializerError('Could not connect to host for remote_id in %s
\* model: %s' % (model.__name__, remote_id))
ResolutionError(model, remote_id) ==
    Raised("ActivitySerializerError", model, remote_id)

TypeOK ==
    /\ \A r \in db : r.pk \in 1..(MaxCalls + MaxTasks + 1)
    /\ pc \in [Procs -> {"idle", "to_model", "fields", "images", "save", "m2m",
                         "reverse", "return", "resolve", "get_data",
                         "dedupe", "set_related_field", "origin", "relate",
                         "commit", "done", "failed"}]
    /\ calls \in 0..MaxCalls
    /\ tasks \in 0..MaxTasks
    /\ fetches \in [Procs -> 0..1]

Init ==
    /\ db = {}
    /\ queue = {}
    /\ pc = [p \in Procs |-> "idle"]
    /\ call = [p \in Procs |-> NoCall]
    /\ inst = [p \in Procs |-> NoRow]
    /\ tx = [p \in Procs |-> {}]
    /\ out = [p \in Procs |-> NoOut]
    /\ fetches = [p \in Procs |-> 0]
    /\ calls = 0
    /\ tasks = 0
    /\ self = NoObject
    /\ returned = NoReturn

\* an exception leaves the call: the atomic block it passes rolls the
\* transaction back, and the call ends with the error (via: the step that
\* raised it)
Raise(p, error) ==
    /\ pc' = [pc EXCEPT ![p] = "failed"]
    /\ out' = [out EXCEPT ![p] = [error EXCEPT !.via = pc[p]]]
    /\ tx' = [tx EXCEPT ![p] = {}]
    /\ inst' = [inst EXCEPT ![p] = NoRow]
    /\ UNCHANGED <<db, queue, call, fetches, calls, tasks, memory>>

\* `return value` of resolve_remote_id or of to_model(save=False), neither of
\* which has written: to the caller set_related_field, or out of the call
ReturnValue(p, value, via) ==
    /\ IF call[p].op = "set_related_field"
       THEN /\ pc' = [pc EXCEPT ![p] = "origin"]
            /\ inst' = [inst EXCEPT ![p] = value]
            /\ out' = out
       ELSE /\ pc' = [pc EXCEPT ![p] = "done"]
            /\ out' = [out EXCEPT ![p] = Returned(value, via)]
            /\ inst' = [inst EXCEPT ![p] = NoRow]
    /\ UNCHANGED <<db, queue, call, tx, fetches, calls, tasks, memory>>


\* a process whose last call is over (out[p] holds what it returned or raised)
\* is free for the next one, which starts with fresh locals
Free(p) == pc[p] \in {"idle", "done", "failed"}

Fresh(p) ==
    /\ inst' = [inst EXCEPT ![p] = NoRow]
    /\ out' = [out EXCEPT ![p] = NoOut]
    /\ fetches' = [fetches EXCEPT ![p] = 0]

\* ------------------------------------------------- ActivityObject.to_model

\* a web worker calls activity.to_model(model) on an incoming activity
StartToModel(p) ==
    /\ Free(p)
    /\ calls < MaxCalls
    /\ \E model \in OriginModels, variant \in Variants,
          wire \in StatusPayloads :
          call' = [call EXCEPT ![p] =
                     [NoCall EXCEPT !.op = "to_model", !.model = model,
                                    !.variant = variant, !.wire = wire]]
    /\ pc' = [pc EXCEPT ![p] = "to_model"]
    /\ calls' = calls + 1
    /\ Fresh(p)
    /\ UNCHANGED <<db, queue, tx, tasks, memory>>

\* (mutant) to_model without the lookup: instance = instance or model()
FoundOrNewWithoutLookup(p) ==
    IF inst[p] # NoRow THEN inst[p] ELSE NewInstance(call[p].model)

\* (mutant) to_model without its instance argument: the lookup by the
\* payload's key decides, whatever instance the caller holds
FoundOrNewIgnoringInstance(p) ==
    LET found == FindExisting(p, call[p].model, call[p].wire.id)
    IN  IF found # NoRow THEN found ELSE NewInstance(call[p].model)

\* if not instance: instance = model.find_existing(self.serialize()) or model()
FoundOrNew(p) ==
    IF inst[p] # NoRow THEN inst[p]
    ELSE LET found == FindExisting(p, call[p].model, call[p].wire.id)
         IN  IF found # NoRow THEN found ELSE NewInstance(call[p].model)

\* (mutant) to_model without the check of the activity's class
WrongActivityTypeUnchecked(p) == FALSE

\* if not isinstance(self, model.activity_serializer)
WrongActivityType(p) ==
    ~IsInstance(call[p].variant, ActivitySerializer(call[p].model))

\* the check of the activity's class, then the lookup of an existing instance
ToModelFind(p) ==
    /\ pc[p] = "to_model"
    /\ IF WrongActivityType(p)
       THEN Raise(p, Raised("ActivitySerializerError", call[p].model,
                            call[p].wire.id))
       ELSE /\ inst' = [inst EXCEPT ![p] = FoundOrNew(p)]
            /\ pc' = [pc EXCEPT ![p] = "fields"]
            /\ UNCHANGED <<db, queue, call, tx, out, fetches, calls,
                           tasks, memory>>

\* field.field_from_activity(value) of a scalar field
FieldFromActivity(value) == value

\* (mutant) a field loop that skips only the values that are MISSING
SkippedOnlyMissing(value) == value = MISSING

\* if value is None or value is MISSING: continue
Skipped(value) == value = None \/ value = MISSING

\* the loop over the model's activitypub fields: setattr(instance, field.name,
\* value) for the scalar fields whose value is not skipped (the many to many
\* value is stashed)
AssignFields(instance, wire) ==
    LET value == FieldFromActivity(wire.v)
    IN  [instance EXCEPT
           !.remote_id = wire.id,
           !.content = IF Skipped(value) THEN instance.content ELSE value]

\* (mutant) the image fields left for after the `if not save: return`
SaveImagesAfterReturn(instance, wire, save) ==
    IF HasImageField(instance.type) /\ save
    THEN [instance EXCEPT !.image = wire.v]
    ELSE instance

\* getattr(instance, model_key).save(*value, save=save) for the stashed image
\* fields: the file is stored and the field set on the instance, whatever
\* save is (with save=True the file's save() saves the instance as well, see
\* ToModelImages); a value that was skipped is not among them
SaveImages(instance, wire, save) ==
    IF HasImageField(instance.type) /\ ~Skipped(wire.v)
    THEN [instance EXCEPT !.image = wire.v]
    ELSE instance

\* the field loop, in which a field's field_from_activity may raise, and the
\* loop over the image fields
ToModelFields(p) ==
    /\ pc[p] = "fields"
    /\ \/ /\ inst' = [inst EXCEPT ![p] =
                        SaveImages(AssignFields(inst[p], call[p].wire),
                                   call[p].wire, call[p].save)]
          /\ pc' = [pc EXCEPT ![p] = "save"]
          /\ UNCHANGED <<db, queue, call, tx, out, fetches, calls,
                         tasks, memory>>
       \/ Raise(p, Raised("FieldError", call[p].model, call[p].wire.id))

\* (mutant) to_model without @transaction.atomic: instance.save() commits
\* on its own
ToModelSaveAutocommit(p) ==
    /\ pc[p] = "save"
    /\ IF ~call[p].save
       THEN ReturnValue(p, inst[p], "to_model")
       ELSE LET w == SavedRow(p, inst[p])
            IN  /\ ~Waits(p, w)
                /\ IF Conflicts(w, Visible(p))
                   THEN Raise(p, Raised("IntegrityError", w.type, w.remote_id))
                   ELSE /\ db' = {r \in db : r.pk # w.pk} \cup {w}
                        /\ inst' = [inst EXCEPT ![p] = w]
                        /\ pc' = [pc EXCEPT ![p] = "m2m"]
                        /\ UNCHANGED <<queue, call, tx, out, fetches, calls,
                                       tasks, memory>>

\* if not save: return instance;  instance.save()
ToModelSave(p) ==
    /\ pc[p] = "save"
    /\ IF ~call[p].save
       THEN ReturnValue(p, inst[p], "to_model")
       ELSE LET w == SavedRow(p, inst[p])
            IN  /\ ~Waits(p, w)
                /\ IF Conflicts(w, Visible(p))
                   THEN Raise(p, Raised("IntegrityError", w.type, w.remote_id))
                   ELSE /\ tx' = [tx EXCEPT ![p] = Written(p, w)]
                        /\ inst' = [inst EXCEPT ![p] = w]
                        /\ pc' = [pc EXCEPT ![p] = "m2m"]
                        /\ UNCHANGED <<db, queue, call, out, fetches, calls,
                                       tasks, memory>>

\* getattr(instance, model_key).set(values), for the stashed many to many
\* fields (a value that was skipped is not among them); resolving a value
\* may raise
ToModelM2M(p) ==
    /\ pc[p] = "m2m"
    /\ \/ LET w == IF Skipped(call[p].wire.v) THEN inst[p]
                   ELSE [inst[p] EXCEPT !.tags = call[p].wire.v]
          IN  /\ tx' = [tx EXCEPT ![p] = Written(p, w)]
              /\ inst' = [inst EXCEPT ![p] = w]
              /\ pc' = [pc EXCEPT ![p] = "reverse"]
              /\ UNCHANGED <<db, queue, call, out, fetches, calls,
                             tasks, memory>>
       \/ Raise(p, Raised("FieldError", call[p].model, call[p].wire.id))

\* the arguments of set_related_field.delay for one item of a reverse field
RelatedFieldTask(model, model_field_name, instance, item) ==
    [model |-> RelatedModel(model, model_field_name),
     origin_model |-> instance.type,
     related_field_name |-> Lower(instance.type),
     related_remote_id |-> instance.remote_id,
     data |-> item]

\* the messages the loop over model.deserialize_reverse_fields dispatches
ReverseFieldTasks(model, instance, wire) ==
    LET reverse == DeserializeReverseFields(model)
    IN  {RelatedFieldTask(model, reverse[k].model_field, instance,
                          wire.attachment[j]) :
            k \in 1..Len(reverse), j \in 1..Len(wire.attachment)}

\* set_related_field.delay(...) for every item: the message is with the
\* broker as soon as delay returns
ToModelReverse(p) ==
    /\ pc[p] = "reverse"
    /\ queue' = queue \cup
                  ReverseFieldTasks(call[p].model, inst[p], call[p].wire)
    /\ pc' = [pc EXCEPT ![p] = "return"]
    /\ UNCHANGED <<db, call, inst, tx, out, fetches, calls, tasks, memory>>

\* return instance: the atomic block of to_model ends, and commits
ToModelReturn(p) ==
    /\ pc[p] = "return"
    /\ db' = Committed(p)
    /\ tx' = [tx EXCEPT ![p] = {}]
    /\ pc' = [pc EXCEPT ![p] = "done"]
    /\ out' = [out EXCEPT ![p] = Returned(inst[p], "to_model")]
    /\ inst' = [inst EXCEPT ![p] = NoRow]
    /\ UNCHANGED <<queue, call, fetches, calls, tasks, memory>>

\* ------------------------------------------------------- resolve_remote_id

\* a web worker calls resolve_remote_id(model, remote_id, refresh)
StartResolve(p) ==
    /\ Free(p)
    /\ calls < MaxCalls
    /\ \E model \in {"Status"}, remote_id \in RemoteIds, refresh \in BOOLEAN :
          call' = [call EXCEPT ![p] =
                     [NoCall EXCEPT !.op = "resolve_remote_id",
                                    !.model = model, !.remote_id = remote_id,
                                    !.refresh = refresh]]
    /\ pc' = [pc EXCEPT ![p] = "resolve"]
    /\ calls' = calls + 1
    /\ Fresh(p)
    /\ UNCHANGED <<db, queue, tx, tasks, memory>>

\* (mutant) the refresh flag read the wrong way round
CacheHitInverted(result, refresh) == result # NoRow /\ refresh

\* if result and not refresh: return result
CacheHit(result, refresh) == result # NoRow /\ ~refresh

\* result = model.find_existing_by_remote_id(remote_id)
ResolveLookup(p) ==
    /\ pc[p] = "resolve"
    /\ LET result ==
             FindExistingByRemoteId(p, call[p].model, call[p].remote_id)
       IN  IF CacheHit(result, call[p].refresh)
           THEN ReturnValue(p, result, "remote_id")
           ELSE /\ inst' = [inst EXCEPT ![p] = result]
                /\ pc' = [pc EXCEPT ![p] = "get_data"]
                /\ UNCHANGED <<db, queue, call, tx, out, fetches, calls,
                               tasks, memory>>

\* data = get_data(remote_id): the remote server's answer, or a
\* ConnectorException / ConnectionError, raised on as ActivitySerializerError
ResolveGetData(p) ==
    /\ pc[p] = "get_data"
    /\ \/ /\ \E data \in PayloadsOf(call[p].model) :
                call' = [call EXCEPT ![p].wire = data]
          /\ pc' = [pc EXCEPT ![p] = "dedupe"]
          /\ fetches' = [fetches EXCEPT ![p] = @ + 1]
          /\ UNCHANGED <<db, queue, inst, tx, out, calls, tasks, memory>>
       \/ /\ pc' = [pc EXCEPT ![p] = "failed"]
          /\ out' = [out EXCEPT ![p] =
                       [ResolutionError(call[p].model, call[p].remote_id)
                          EXCEPT !.via = "get_data"]]
          /\ tx' = [tx EXCEPT ![p] = {}]
          /\ fetches' = [fetches EXCEPT ![p] = @ + 1]
          /\ inst' = [inst EXCEPT ![p] = NoRow]
          /\ UNCHANGED <<db, queue, call, calls, tasks, memory>>

\* if not result: result = model.find_existing(data);
\* if result and not refresh: return result;
\* item = model.activity_serializer(**data);
\* item.to_model(model, instance=result, save=save)
ResolveDedupe(p) ==
    /\ pc[p] = "dedupe"
    /\ LET result ==
             IF inst[p] # NoRow THEN inst[p]
             ELSE FindExisting(p, call[p].model, call[p].wire.id)
       IN  IF inst[p] = NoRow /\ CacheHit(result, call[p].refresh)
           THEN ReturnValue(p, result, "find_existing")
           ELSE /\ inst' = [inst EXCEPT ![p] = result]
                /\ call' = [call EXCEPT ![p].variant =
                              ActivitySerializer(call[p].model)]
                /\ pc' = [pc EXCEPT ![p] = "to_model"]
                /\ UNCHANGED <<db, queue, tx, out, fetches, calls,
                               tasks, memory>>


\* ------------------------------------------------------- set_related_field

\* the foreign key field the related model has for the reverse relation:
\* Image.status, of which Status.attachments is the reverse side
RelationField(model) == IF model = "Image" THEN "status" ELSE ""

\* setattr(item, related_field_name, instance): the foreign key is set when
\* the name is that of the field; any other name is a plain attribute of the
\* python object, which save() does not write
SetAttr(item, related_field_name, instance) ==
    IF related_field_name = RelationField(item.type)
    THEN [item EXCEPT !.fk = instance.pk]
    ELSE item

\* a celery worker takes a message of the queue (which may deliver it again)
\* and enters the atomic block of the task
StartTask(p) ==
    /\ Free(p)
    /\ tasks < MaxTasks
    /\ \E msg \in queue :
          call' = [call EXCEPT ![p] =
                     [NoCall EXCEPT
                        !.op = "set_related_field", !.model = msg.model,
                        !.msg = msg, !.save = FALSE,
                        !.remote_id = msg.data.id,
                        !.variant = IF msg.data.kind = "dict"
                                    THEN ActivitySerializer(msg.model) ELSE "",
                        !.wire = IF msg.data.kind = "dict"
                                 THEN ItemPayload(msg.data) ELSE NoPayload]]
    /\ pc' = [pc EXCEPT ![p] = "set_related_field"]
    /\ tasks' = tasks + 1
    /\ Fresh(p)
    /\ UNCHANGED <<db, queue, tx, calls, memory>>

\* if isinstance(data, str): item = resolve_remote_id(model, data, save=False)
\* else: item = model.find_existing(data), and when there is none
\*       item = model.activity_serializer(**data).to_model(model, save=False)
SetRelatedFieldItem(p) ==
    /\ pc[p] = "set_related_field"
    /\ IF call[p].msg.data.kind = "str"
       THEN /\ pc' = [pc EXCEPT ![p] = "resolve"]
            /\ inst' = inst
       ELSE LET item == FindExisting(p, call[p].model, call[p].wire.id)
            IN  /\ inst' = [inst EXCEPT ![p] = item]
                /\ pc' = [pc EXCEPT ![p] =
                            IF item = NoRow THEN "to_model" ELSE "origin"]
    /\ UNCHANGED <<db, queue, call, tx, out, fetches, calls, tasks, memory>>

\* (mutant) the item saved, outside a transaction, before the origin is
\* looked up
SetRelatedFieldOriginSavesFirst(p) ==
    /\ pc[p] = "origin"
    /\ LET instance ==
             FindExistingByRemoteId(p, call[p].msg.origin_model,
                                    call[p].msg.related_remote_id)
           w == SavedRow(p, inst[p])
       IN  IF instance = NoRow
           THEN /\ ~Waits(p, w)
                /\ db' = IF Conflicts(w, Visible(p)) THEN db
                          ELSE {r \in db : r.pk # w.pk} \cup {w}
                /\ pc' = [pc EXCEPT ![p] = "failed"]
                /\ out' = [out EXCEPT ![p] =
                             [Raised("ValueError", call[p].msg.origin_model,
                                     call[p].msg.related_remote_id)
                                EXCEPT !.via = "origin"]]
                /\ inst' = [inst EXCEPT ![p] = NoRow]
                /\ UNCHANGED <<queue, call, tx, fetches, calls, tasks, memory>>
           ELSE /\ call' = [call EXCEPT ![p].origin = instance.pk]
                /\ pc' = [pc EXCEPT ![p] = "relate"]
                /\ UNCHANGED <<db, queue, inst, tx, out, fetches, calls,
                               tasks, memory>>

\* instance = origin_model.find_existing_by_remote_id(related_remote_id)
\* if not instance: raise ValueError('Invalid related remote id: ...')
SetRelatedFieldOrigin(p) ==
    /\ pc[p] = "origin"
    /\ LET instance ==
             FindExistingByRemoteId(p, call[p].msg.origin_model,
                                    call[p].msg.related_remote_id)
       IN  IF instance = NoRow
           THEN Raise(p, Raised("ValueError", call[p].msg.origin_model,
                                call[p].msg.related_remote_id))
           ELSE /\ call' = [call EXCEPT ![p].origin = instance.pk]
                /\ pc' = [pc EXCEPT ![p] = "relate"]
                /\ UNCHANGED <<db, queue, inst, tx, out, fetches, calls,
                               tasks, memory>>

\* setattr(item, related_field_name, instance); item.save()
SetRelatedFieldSave(p) ==
    /\ pc[p] = "relate"
    /\ LET item == SetAttr(inst[p], call[p].msg.related_field_name,
                           [NoRow EXCEPT !.pk = call[p].origin])
           w == SavedRow(p, item)
       IN  /\ ~Waits(p, w)
           /\ IF Conflicts(w, Visible(p))
              THEN Raise(p, Raised("IntegrityError", w.type, w.remote_id))
              ELSE /\ tx' = [tx EXCEPT ![p] = Written(p, w)]
                   /\ inst' = [inst EXCEPT ![p] = w]
                   /\ pc' = [pc EXCEPT ![p] = "commit"]
                   /\ UNCHANGED <<db, queue, call, out, fetches, calls,
                                  tasks, memory>>

\* the task returns: its atomic block ends, and commits
SetRelatedFieldReturn(p) ==
    /\ pc[p] = "commit"
    /\ db' = Committed(p)
    /\ tx' = [tx EXCEPT ![p] = {}]
    /\ pc' = [pc EXCEPT ![p] = "done"]
    /\ out' = [out EXCEPT ![p] = Returned(NoRow, "set_related_field")]
    /\ inst' = [inst EXCEPT ![p] = NoRow]
    /\ UNCHANGED <<queue, call, fetches, calls, tasks, memory>>

\* ------------------------------------------------------------ the processes

Step(p) ==
        \/ StartToModel(p)
        \/ ToModelFind(p)
        \/ ToModelFields(p)
        \/ ToModelSave(p)
        \/ ToModelM2M(p)
        \/ ToModelReverse(p)
        \/ ToModelReturn(p)
        \/ StartResolve(p)
        \/ ResolveLookup(p)
        \/ ResolveGetData(p)
        \/ ResolveDedupe(p)
        \/ StartTask(p)
        \/ SetRelatedFieldItem(p)
        \/ SetRelatedFieldOrigin(p)
        \/ SetRelatedFieldSave(p)
        \/ SetRelatedFieldReturn(p)

\* the processes run concurrently: any of them takes the next step
Next == \E p \in Procs : Step(p)

Spec == Init /\ [][Next]_vars

\* the calls run in sequence: a process steps only while no other process is
\* inside a call
NextSeq == \E p \in Procs : (\A q \in Procs \ {p} : Free(q)) /\ Step(p)

SpecSeq == Init /\ [][NextSeq]_vars

\* a status as an earlier to_model call persisted it
PersistedStatus(pk, remote_id, v) ==
    [NoRow EXCEPT !.pk = pk, !.type = "Status", !.remote_id = remote_id,
                  !.content = v, !.tags = v]

\* the databases the resolvers start from: empty, or holding the statuses
\* earlier calls persisted
PersistedBefore ==
    { {},
      {PersistedStatus(1, "a", "v1")},
      {PersistedStatus(1, "a", "v1"), PersistedStatus(2, "b", "v1")} }

InitResolve ==
    /\ db \in PersistedBefore
    /\ queue = {}
    /\ pc = [p \in Procs |-> "idle"]
    /\ call = [p \in Procs |-> NoCall]
    /\ inst = [p \in Procs |-> NoRow]
    /\ tx = [p \in Procs |-> {}]
    /\ out = [p \in Procs |-> NoOut]
    /\ fetches = [p \in Procs |-> 0]
    /\ calls = 0
    /\ tasks = 0
    /\ self = NoObject
    /\ returned = NoReturn

\* the web workers resolve remote ids, concurrently: resolve_remote_id and
\* the to_model call it ends in
StepResolve(p) ==
        \/ StartResolve(p)
        \/ ResolveLookup(p)
        \/ ResolveGetData(p)
        \/ ResolveDedupe(p)
        \/ ToModelFind(p)
        \/ ToModelFields(p)
        \/ ToModelSave(p)
        \/ ToModelM2M(p)
        \/ ToModelReverse(p)
        \/ ToModelReturn(p)

NextResolve == \E p \in Procs : StepResolve(p)

SpecResolve == InitResolve /\ [][NextResolve]_vars


\* -------------------------------------------------- ActivityObject.__init__

\* the state of the engine, which the methods below do not touch
engine == <<db, queue, pc, call, inst, tx, out, fetches, calls, tasks>>

\* a field of a dataclass: name: type, name: type = default, or
\* name: type = field(default_factory=...)
Field(name, default, default_factory) ==
    [name |-> name, default |-> default, default_factory |-> default_factory]

\* the three ways to declare a field
Declarations == {"required", "default", "default_factory"}

DeclaredField(name, declared) ==
    Field(name,
          IF declared = "default" THEN "the default" ELSE MISSING,
          IF declared = "default_factory" THEN "the factory" ELSE MISSING)

\* fields(self) for the dataclasses converted: id, type and one more field,
\* each declared in one of the three ways
FieldNames == <<"id", "type", "tag">>

Dataclasses ==
    {[i \in 1..Len(FieldNames) |-> DeclaredField(FieldNames[i], d[i])] :
        d \in [1..Len(FieldNames) -> Declarations]}

\* the keys of the json a remote server sends: those of the fields, and one
\* no dataclass declares
PayloadKeys == {"id", "type", "tag", "@context"}

\* **kwargs
Kwargs ==
    {[k \in keys |-> "sent"] : keys \in SUBSET PayloadKeys}

\* {}
EmptyDict == [k \in {} |-> None]

\* dict[key] = value; setattr(self, key, value) on self.__dict__
SetItem(dict, key, value) ==
    [k \in DOMAIN dict \cup {key} |-> IF k = key THEN value ELSE dict[k]]

RECURSIVE InitFields(_, _, _, _)
\* for field in fields(self), from the i-th field on, over the attributes set
\* so far: value = kwargs[field.name]; on KeyError the error when the field
\* has neither default nor default_factory, else value = field.default;
\* setattr(self, field.name, value)
InitFields(fields, kwargs, i, dict) ==
    IF i > Len(fields) THEN [kind |-> "return", value |-> dict]
    ELSE LET field == fields[i]
         IN  IF field.name \in DOMAIN kwargs
             THEN InitFields(fields, kwargs, i + 1,
                             SetItem(dict, field.name, kwargs[field.name]))
             ELSE IF /\ field.default = MISSING
                     /\ field.default_factory = MISSING
                  THEN [kind |-> "ActivitySerializerError",
                        value |-> field.name]
                  ELSE InitFields(fields, kwargs, i + 1,
                                  SetItem(dict, field.name, field.default))

\* cls(**kwargs): the object, or none when __init__ raised
NewObject(fields, kwargs) ==
    LET made == InitFields(fields, kwargs, 1, EmptyDict)
    IN  IF made.kind = "return"
        THEN [class |-> "ActivityObject", fields |-> fields,
              dict |-> made.value]
        ELSE [class |-> None, fields |-> fields, dict |-> EmptyDict]

\* an activity object is built from a payload
Construct ==
    /\ self = NoObject
    /\ returned = NoReturn
    /\ \E fields \in Dataclasses, kwargs \in Kwargs :
          LET made == InitFields(fields, kwargs, 1, EmptyDict)
          IN  /\ self' = NewObject(fields, kwargs)
              /\ returned' =
                    [op |-> "__init__",
                     args |-> [fields |-> fields, kwargs |-> kwargs],
                     kind |-> made.kind,
                     value |-> IF made.kind = "return" THEN None
                               ELSE made.value]
    /\ UNCHANGED engine

\* ------------------------------------------------- ActivityObject.serialize

ActivityStreams == "https://www.w3.org/ns/activitystreams"

\* data = self.__dict__; data['@context'] = ...: data is the object's own
\* dictionary, not a copy of it
SerializedDict(dict) == SetItem(dict, "@context", ActivityStreams)

\* self.serialize(): the dictionary returned is self.__dict__ itself
Serialize ==
    /\ self.class = "ActivityObject"
    /\ self' = [self EXCEPT !.dict = SerializedDict(self.dict)]
    /\ returned' = [op |-> "serialize", args |-> None, kind |-> "return",
                    value |-> SerializedDict(self.dict)]
    /\ UNCHANGED engine

\* activity objects are built from payloads, and serialized, any number of
\* times
NextObject == Construct \/ Serialize

SpecObject == Init /\ [][NextObject]_vars

\* ------------------------------------------------------ Status.to_activity

\* the longest list of mentioned users
MaxMentions == 2

\* class Status and its subclasses
StatusModels == {"Status", "GeneratedNote", "Comment", "Quotation", "Review"}

\* hasattr(self, 'book'): Comment, Quotation and Review declare a book
HasBook(model) == model \in {"Comment", "Quotation", "Review"}

\* the models that declare pure_content and pure_type
HasPure(model) == model \in {"GeneratedNote", "Comment", "Quotation", "Review"}

\* pure_type
PureType(model) == IF model = "Review" THEN "Article" ELSE "Note"

\* 'name' in activity: the serializers that declare a name (Review.name)
HasName(model) == model = "Review"

\* PrivacyLevels: the values of Status.privacy
PrivacyLevels == {"public", "unlisted", "followers", "direct"}

\* datetimes, and 0 for a null date
Timestamps == 1..2
NoDate == 0

\* datetime.isoformat()
IsoFormat(date) ==
    <<"2020-12-01T10:00:00+00:00", "2020-12-02T10:00:00+00:00">>[date]

\* str(value) in a % format
Str(value) == value

\* Review.rating: null, or a number of stars
Ratings == {0, 4}

\* an empty image field (b.cover is falsy)
NoCover == ""

\* editions: one with a cover and one without
Books ==
    {[remote_id |-> "https://example.com/book/1", title |-> "Title 1",
      cover |-> "/images/covers/1.jpg"],
     [remote_id |-> "https://example.com/book/2", title |-> "Title 2",
      cover |-> NoCover]}

\* self.book of a model that declares none
NoBook == [remote_id |-> None, title |-> None, cover |-> NoCover]

\* the remote ids of the users a status can mention
Users == {"https://example.com/user/" \o ToString(i) : i \in 1..MaxMentions}

\* queryset.all(): the sequences over a set without repetition
All(S) ==
    UNION {{q \in [1..n -> S] : \A i, j \in 1..n : q[i] = q[j] => i = j} :
              n \in 0..Cardinality(S)}

\* the author of a status
Author ==
    [remote_id |-> "https://example.com/user/mouse", display_name |-> "mouse"]

\* activitypub.Image(url=...)
Image(url) == [type |-> "Image", url |-> url]

\* what image_serializer gives for an empty image field: no image
NoImage == [type |-> None, url |-> None]

\* fields.image_serializer(value)
ImageSerializer(value) ==
    IF value = NoCover THEN NoImage
    ELSE Image("https://example.com" \o value)

\* self.book: an edition for the models that declare a book
BooksOf(model) == IF HasBook(model) THEN Books ELSE {NoBook}

\* self.rating: only a Review has one
RatingsOf(model) == IF model = "Review" THEN Ratings ELSE {0}

\* the statuses of a model
StatusesOf(model) ==
    {[class |-> model,
      remote_id |-> "https://example.com/status/1",
      user |-> Author,
      content |-> content,
      quote |-> IF model = "Quotation" THEN "a quote" ELSE None,
      name |-> IF HasName(model) THEN "a name" ELSE None,
      rating |-> rating,
      privacy |-> privacy,
      mention_users |-> mention_users,
      mention_books |-> mention_books,
      book |-> book,
      attachments |-> <<Image("https://example.com/images/status/1.jpg")>>,
      published_date |-> published_date,
      deleted |-> deleted_date # NoDate,
      deleted_date |-> deleted_date] :
        content \in {"content", None},
        rating \in RatingsOf(model),
        privacy \in PrivacyLevels,
        mention_users \in All(Users),
        mention_books \in All(Books),
        book \in BooksOf(model),
        published_date \in Timestamps,
        deleted_date \in Timestamps \cup {NoDate}}

\* the statuses of the database
Statuses == UNION {StatusesOf(model) : model \in StatusModels}

\* the fields of activitypub.Tombstone
TombstoneFields ==
    <<Field("id", MISSING, MISSING), Field("type", "Tombstone", MISSING),
      Field("url", MISSING, MISSING), Field("published", MISSING, MISSING),
      Field("deleted", MISSING, MISSING)>>

\* (mutant) a tombstone published when the status was
TombstonePublishedDate(status) ==
    SerializedDict(InitFields(TombstoneFields,
        [id |-> status.remote_id, url |-> status.remote_id,
         deleted |-> IsoFormat(status.deleted_date),
         published |-> IsoFormat(status.published_date)],
        1, EmptyDict).value)

\* activitypub.Tombstone(id=..., url=..., deleted=..., published=...)
\* .serialize()
Tombstone(status) ==
    SerializedDict(InitFields(TombstoneFields,
        [id |-> status.remote_id, url |-> status.remote_id,
         deleted |-> IsoFormat(status.deleted_date),
         published |-> IsoFormat(status.deleted_date)],
        1, EmptyDict).value)

\* ActivitypubMixin.to_activity(self): the fields of the status under their
\* activitypub names, as the model's serializer declares them
MixinToActivity(status) ==
    LET note ==
          [k \in {"@context", "id", "type", "attributedTo", "content",
                  "published", "attachment"} |->
             CASE k = "@context" -> ActivityStreams
               [] k = "id" -> status.remote_id
               [] k = "type" -> ActivitySerializer(status.class)
               [] k = "attributedTo" -> status.user.remote_id
               [] k = "content" -> status.content
               [] k = "published" -> IsoFormat(status.published_date)
               [] k = "attachment" -> status.attachments]
        book == IF HasBook(status.class)
                THEN SetItem(note, "inReplyToBook", status.book.remote_id)
                ELSE note
    IN  IF HasName(status.class)
        THEN SetItem(SetItem(book, "name", status.name),
                     "rating", status.rating)
        ELSE book

\* self.to_replies(): the collection of the replies to the status
ToReplies(status) ==
    [id |-> status.remote_id \o "/replies", type |-> "OrderedCollection"]

Public == "https://www.w3.org/ns/activitystreams#Public"

\* the link to the followers list of the author
Followers(user) == user.remote_id \o "/followers"

\* (mutant) privacy controls that copy everything to the public address
PrivacyControlsAllPublic(activity, privacy, followers, mentions) ==
    SetItem(SetItem(activity, "to", <<Public>>),
            "cc", <<followers>> \o mentions)

\* the privacy controls: an if/elif chain over public, unlisted and
\* followers, and then an if for direct
PrivacyControls(activity, privacy, followers, mentions) ==
    LET first ==
          IF privacy = "public"
          THEN SetItem(SetItem(activity, "to", <<Public>>),
                       "cc", <<followers>> \o mentions)
          ELSE IF privacy = "unlisted"
          THEN SetItem(SetItem(activity, "to", <<followers>>),
                       "cc", <<Public>> \o mentions)
          ELSE IF privacy = "followers"
          THEN SetItem(SetItem(activity, "to", <<followers>>),
                       "cc", mentions)
          ELSE activity
    IN  IF privacy = "direct"
        THEN SetItem(SetItem(first, "to", mentions), "cc", <<>>)
        ELSE first

RECURSIVE Join(_, _)
\* sep.join(strings)
Join(sep, strings) ==
    IF strings = <<>> THEN ""
    ELSE IF Len(strings) = 1 THEN strings[1]
    ELSE strings[1] \o sep \o Join(sep, Tail(strings))

\* '<a href="%s">"%s"</a>' % (book.remote_id, book.title)
BookLink(book) ==
    "<a href=\"" \o book.remote_id \o "\">\"" \o book.title \o "\"</a>"

\* self.pure_content: the content with the book in question; str + str
\* raises TypeError when the content is null
PureContent(status) ==
    CASE status.class = "GeneratedNote" ->
           [kind |-> "return",
            value |-> status.user.display_name \o " " \o
                      Str(status.content) \o " " \o
                      Join(", ", [i \in 1..Len(status.mention_books) |->
                                    BookLink(status.mention_books[i])])]
      [] status.class = "Comment" ->
           IF status.content = None
           THEN [kind |-> "TypeError", value |-> None]
           ELSE [kind |-> "return",
                 value |-> status.content \o "<br><br>(comment on " \o
                           BookLink(status.book) \o ")"]
      [] status.class = "Quotation" ->
           [kind |-> "return",
            value |-> "\"" \o Str(status.quote) \o "\"<br>-- " \o
                      BookLink(status.book) \o "<br><br>" \o
                      Str(status.content)]
      [] status.class = "Review" ->
           IF status.content = None
           THEN [kind |-> "TypeError", value |-> None]
           ELSE [kind |-> "return",
                 value |-> status.content \o "<br><br>(" \o
                           BookLink(status.book) \o ")"]

\* Review.pure_name
PureName(status) ==
    IF status.rating # 0
    THEN "Review of \"" \o status.book.title \o "\" (" \o
         ToString(status.rating) \o " stars): " \o Str(status.name)
    ELSE "Review of \"" \o status.book.title \o "\": " \o Str(status.name)

\* [image_serializer(b.cover) for b in self.mention_books.all() if b.cover]
CoverImages(books) ==
    LET covered == SelectSeq(books, LAMBDA b : b.cover # NoCover)
    IN  [i \in 1..Len(covered) |-> ImageSerializer(covered[i].cover)]

\* the "pure" serialization for non-bookwyrm instances
Pure(status, activity) ==
    LET content == PureContent(status)
        named == IF "name" \in DOMAIN activity
                 THEN SetItem(activity, "name", PureName(status))
                 ELSE activity
        typed == SetItem(named, "type", PureType(status.class))
        tagged == CoverImages(status.mention_books)
        attachment ==
            IF HasBook(status.class)
            THEN Append(tagged, ImageSerializer(status.book.cover))
            ELSE tagged
    IN  IF content.kind # "return" THEN content
        ELSE [kind |-> "return",
              value |-> SetItem(SetItem(typed, "content", content.value),
                                "attachment", attachment)]

\* Status.to_activity(self, pure)
ToActivity(status, pure) ==
    IF status.deleted
    THEN [kind |-> "return", value |-> Tombstone(status)]
    ELSE LET activity ==
               PrivacyControls(
                   SetItem(MixinToActivity(status), "replies",
                           ToReplies(status)),
                   status.privacy, Followers(status.user),
                   status.mention_users)
         IN  IF pure THEN Pure(status, activity)
             ELSE [kind |-> "return", value |-> activity]

\* a status of the database is loaded
InitStatus ==
    /\ db = {}
    /\ queue = {}
    /\ pc = [p \in Procs |-> "idle"]
    /\ call = [p \in Procs |-> NoCall]
    /\ inst = [p \in Procs |-> NoRow]
    /\ tx = [p \in Procs |-> {}]
    /\ out = [p \in Procs |-> NoOut]
    /\ fetches = [p \in Procs |-> 0]
    /\ calls = 0
    /\ tasks = 0
    /\ self \in Statuses
    /\ returned = NoReturn

\* self.to_activity(pure): the pure serialization is asked of the statuses
\* that declare it
CallToActivity ==
    /\ self.class \in StatusModels
    /\ \E pure \in BOOLEAN :
          /\ (pure /\ ~self.deleted) => HasPure(self.class)
          /\ returned' =
                [op |-> "to_activity", args |-> [pure |-> pure],
                 kind |-> ToActivity(self, pure).kind,
                 value |-> ToActivity(self, pure).value]
    /\ UNCHANGED <<self, engine>>

NextStatus == CallToActivity

SpecStatus == InitStatus /\ [][NextStatus]_vars

\* ------------------------------------------- the steps of to_model, one by one

\* the models converted with save=True: the statuses, and a model with an
\* image field
ConvertedModels == OriginModels \cup {"User"}

\* a web worker calls activity.to_model(model), the activity of the model's
\* serializer
StartToModelSaving(p) ==
    /\ Free(p)
    /\ calls < MaxCalls
    /\ \E model \in ConvertedModels, wire \in StatusPayloads :
          /\ model = "User" => wire.attachment = <<>>
          /\ call' = [call EXCEPT ![p] =
                        [NoCall EXCEPT !.op = "to_model", !.model = model,
                                       !.variant = ActivitySerializer(model),
                                       !.wire = wire]]
    /\ pc' = [pc EXCEPT ![p] = "to_model"]
    /\ calls' = calls + 1
    /\ Fresh(p)
    /\ UNCHANGED <<db, queue, tx, tasks, memory>>

\* (mutant) a field loop that goes on to the many to many fields
ToModelAssignThenM2M(p) ==
    /\ pc[p] = "fields"
    /\ inst' = [inst EXCEPT ![p] = AssignFields(inst[p], call[p].wire)]
    /\ pc' = [pc EXCEPT ![p] = "m2m"]
    /\ UNCHANGED <<db, queue, call, tx, out, fetches, calls, tasks, memory>>

\* the loop over the model's activitypub fields alone: the scalar fields are
\* set, the many to many and image values stashed; a field's
\* field_from_activity may raise
ToModelAssign(p) ==
    /\ pc[p] = "fields"
    /\ \/ /\ inst' = [inst EXCEPT ![p] =
                        AssignFields(inst[p], call[p].wire)]
          /\ pc' = [pc EXCEPT ![p] = "images"]
          /\ UNCHANGED <<db, queue, call, tx, out, fetches, calls, tasks,
                         memory>>
       \/ Raise(p, Raised("FieldError", call[p].model, call[p].wire.id))

\* the loop over the stashed image fields alone:
\* getattr(instance, model_key).save(*value, save=save); with save=True the
\* file's save() saves the instance as well
ToModelImages(p) ==
    /\ pc[p] = "images"
    /\ LET applied == SaveImages(inst[p], call[p].wire, call[p].save)
           w == SavedRow(p, applied)
       IN  IF HasImageField(call[p].model) /\ call[p].save
           THEN /\ ~Waits(p, w)
                /\ IF Conflicts(w, Visible(p))
                   THEN Raise(p, Raised("IntegrityError", w.type,
                                        w.remote_id))
                   ELSE /\ tx' = [tx EXCEPT ![p] = Written(p, w)]
                        /\ inst' = [inst EXCEPT ![p] = w]
                        /\ pc' = [pc EXCEPT ![p] = "save"]
                        /\ UNCHANGED <<db, queue, call, out, fetches, calls,
                                       tasks, memory>>
           ELSE /\ inst' = [inst EXCEPT ![p] = applied]
                /\ pc' = [pc EXCEPT ![p] = "save"]
                /\ UNCHANGED <<db, queue, call, tx, out, fetches, calls,
                               tasks, memory>>

StepToModel(p) ==
    \/ StartToModelSaving(p)
    \/ ToModelFind(p)
    \/ ToModelAssign(p)
    \/ ToModelImages(p)
    \/ ToModelSave(p)
    \/ ToModelM2M(p)
    \/ ToModelReverse(p)
    \/ ToModelReturn(p)

NextToModel == \E p \in Procs : StepToModel(p)

\* concurrent to_model calls with save=True, each loop a step of its own
SpecToModel == Init /\ [][NextToModel]_vars

\* ------------------------------------------------ the values of a payload

\* what a field of a payload can hold: a value, the empty string, null, or
\* MISSING for a field the payload lacks
FieldValues == Versions \cup {"", None, MISSING}

\* a web worker calls activity.to_model(model) on an activity whose fields
\* hold any of these
StartToModelValues(p) ==
    /\ Free(p)
    /\ calls < MaxCalls
    /\ \E model \in OriginModels, id \in RemoteIds, v \in FieldValues :
          call' = [call EXCEPT ![p] =
                     [NoCall EXCEPT !.op = "to_model", !.model = model,
                                    !.variant = ActivitySerializer(model),
                                    !.wire = [id |-> id, v |-> v,
                                              attachment |-> <<>>]]]
    /\ pc' = [pc EXCEPT ![p] = "to_model"]
    /\ calls' = calls + 1
    /\ Fresh(p)
    /\ UNCHANGED <<db, queue, tx, tasks, memory>>

StepValues(p) ==
    \/ StartToModelValues(p)
    \/ ToModelFind(p)
    \/ ToModelFields(p)
    \/ ToModelSave(p)
    \/ ToModelM2M(p)
    \/ ToModelReverse(p)
    \/ ToModelReturn(p)

NextValues == \E p \in Procs : StepValues(p)

\* to_model calls on payloads with valued, empty, null and lacking fields,
\* over databases that hold statuses
SpecValues == InitResolve /\ [][NextValues]_vars

\* --------------------------------------------------- an incoming Like

\* the identifiers of the favorites remote servers send
FavIds == {"http://example.com/fav/1", "http://example.com/fav/2"}

\* the remote user and the local status of the database
RemoteUser ==
    [NoRow EXCEPT !.pk = 1, !.type = "User",
                  !.remote_id = "https://example.com/users/rat"]

LocalStatus ==
    [NoRow EXCEPT !.pk = 2, !.type = "Status",
                  !.remote_id = "http://local.com/status/1",
                  !.content = "Test status"]

\* a favorite of the status by the user, persisted earlier
PersistedFavorite(remote_id) ==
    [NoRow EXCEPT !.pk = 3, !.type = "Favorite", !.remote_id = remote_id,
                  !.user = RemoteUser.pk, !.fk = LocalStatus.pk]

\* Like activities whose actor and object are the user and the status
Likes ==
    {[id |-> id, actor |-> RemoteUser.remote_id,
      object |-> LocalStatus.remote_id] : id \in FavIds}

\* the database holds the user and the status, and perhaps a favorite
InitFavorite ==
    /\ db \in {{RemoteUser, LocalStatus}} \cup
              {{RemoteUser, LocalStatus, PersistedFavorite(id)} :
                  id \in FavIds}
    /\ queue = {}
    /\ pc = [p \in Procs |-> "idle"]
    /\ call = [p \in Procs |-> NoCall]
    /\ inst = [p \in Procs |-> NoRow]
    /\ tx = [p \in Procs |-> {}]
    /\ out = [p \in Procs |-> NoOut]
    /\ fetches = [p \in Procs |-> 0]
    /\ calls = 0
    /\ tasks = 0
    /\ self = NoObject
    /\ returned = NoReturn

\* incoming.handle_favorite(activity):
\* activitypub.Like(**activity).to_model(models.Favorite)
HandleFavorite(p) ==
    /\ Free(p)
    /\ calls < MaxCalls
    /\ \E activity \in Likes :
          call' = [call EXCEPT ![p] =
                     [NoCall EXCEPT !.op = "handle_favorite",
                                    !.model = "Favorite",
                                    !.variant = "Like",
                                    !.wire = activity]]
    /\ pc' = [pc EXCEPT ![p] = "to_model"]
    /\ calls' = calls + 1
    /\ Fresh(p)
    /\ UNCHANGED <<db, queue, tx, tasks, memory>>

\* the field loop of to_model for a Favorite: remote_id from the id, and the
\* foreign keys user and status from actor and object, each resolved to the
\* entity that has this remote id
ToModelForeignKeys(p) ==
    /\ pc[p] = "fields"
    /\ call[p].model = "Favorite"
    /\ LET user == FindExistingByRemoteId(p, "User", call[p].wire.actor)
           status == FindExistingByRemoteId(p, "Status", call[p].wire.object)
       IN  IF user = NoRow \/ status = NoRow
           THEN Raise(p, Raised("FieldError", call[p].model, call[p].wire.id))
           ELSE /\ inst' = [inst EXCEPT ![p] =
                              [inst[p] EXCEPT !.remote_id = call[p].wire.id,
                                              !.user = user.pk,
                                              !.fk = status.pk]]
                /\ pc' = [pc EXCEPT ![p] = "save"]
                /\ UNCHANGED <<db, queue, call, tx, out, fetches, calls,
                               tasks, memory>>

\* instance.save() of a Favorite: Favorite.save sets the user's
\* last_active_date, saves the user and then the favorite; the model has no
\* many to many fields and no deserialize_reverse_fields
FavoriteSave(p) ==
    /\ pc[p] = "save"
    /\ call[p].model = "Favorite"
    /\ LET user == CHOOSE r \in Visible(p) :
                      r.type = "User" /\ r.pk = inst[p].user
           active == [user EXCEPT !.content = "last_active_date"]
           w == SavedRow(p, inst[p])
       IN  /\ ~Waits(p, active)
           /\ ~Waits(p, w)
           /\ IF Conflicts(w, Visible(p))
              THEN Raise(p, Raised("IntegrityError", w.type, w.remote_id))
              ELSE /\ tx' = [tx EXCEPT ![p] =
                               {r \in tx[p] : r.pk \notin {active.pk, w.pk}}
                                   \cup {active, w}]
                   /\ inst' = [inst EXCEPT ![p] = w]
                   /\ pc' = [pc EXCEPT ![p] = "return"]
                   /\ UNCHANGED <<db, queue, call, out, fetches, calls,
                                  tasks, memory>>

StepFavorite(p) ==
    \/ HandleFavorite(p)
    \/ ToModelFind(p)
    \/ ToModelForeignKeys(p)
    \/ FavoriteSave(p)
    \/ ToModelReturn(p)

NextFavorite == \E p \in Procs : StepFavorite(p)

\* Like activities arrive for a user and a status the database holds
SpecFavorite == InitFavorite /\ [][NextFavorite]_vars

\* ------------------------------------------------------------------ claims

\* the committed rows of a model's table that carry a remote id
RowsOf(rows, table, remote_id) ==
    {r \in rows : Table(r.type) = table /\ r.remote_id = remote_id}

Matches(rows, model, wire) ==
    {r \in rows : r.type \in Subclasses(model) /\ r.remote_id = wire.id}

\* C2: with the calls run in sequence, a to_model call (save=True, no
\* instance given, an activity of the model's serializer) whose payload shares
\* its natural key with a persisted entity of its model finds that entity,
\* never ends in the storage layer rejecting an insert, and when it returns
\* has updated that entity's fields in place: the database is the one before
\* with that one row changed, so the count has not grown; and every to_model
\* call that returns leaves exactly one row for its key.
C2_IdempotentUpsert ==
    [][\A p \in Procs :
         ( /\ call[p].op = "to_model" /\ pc'[p] # pc[p]
           /\ IsInstance(call[p].variant,
                         ActivitySerializer(call[p].model)) ) =>
           LET wire == call[p].wire
               match == Matches(db, call[p].model, wire)
           IN  /\ pc'[p] = "done" =>
                    Cardinality(RowsOf(db', "status", wire.id)) = 1
               /\ match # {} =>
                    /\ pc[p] = "to_model" => inst'[p] \in match
                    /\ pc'[p] = "failed" => out'[p].kind = "FieldError"
                    /\ pc'[p] = "done" =>
                         \E r \in match :
                            /\ out'[p].value.pk = r.pk
                            /\ db' = (db \ {r}) \cup
                                 {[r EXCEPT !.content = wire.v,
                                            !.tags = wire.v]}]_vars

\* C2's case: two to_model calls with the same key and different fields have
\* both returned; the second, p, returned the row of the first, and the one
\* row of the database carries p's fields
C2_Witness ==
    \E p, q \in Procs :
        /\ p # q
        /\ pc[p] = "done" /\ pc[q] = "done"
        /\ call[p].op = "to_model" /\ call[q].op = "to_model"
        /\ call[p].wire.id = call[q].wire.id
        /\ call[p].wire.v # call[q].wire.v
        /\ out[p].value.pk = out[q].value.pk
        /\ db = {out[p].value}
        /\ out[p].value.content = call[p].wire.v

\* no committed status is saved without the many to many values of the
\* payload it was saved from
NoPartialEntity ==
    \A r \in db : r.type \in OriginModels => r.tags = r.content

\* C3: to_model is atomic with respect to the database: a step in which a
\* call fails leaves the database as it was and discards what the call wrote;
\* the database changes only in the step in which a call returns, so a call
\* that fails has changed nothing; and no state of the database holds a
\* status that is saved but lacks its many to many values.
C3_ToModelAtomic ==
    [][/\ \A p \in Procs :
            (pc'[p] = "failed" /\ pc[p] # "failed") =>
               db' = db /\ tx'[p] = {}
       /\ db' # db =>
            \E p \in Procs :
               pc[p] \in {"return", "commit"} /\ pc'[p] = "done"
       /\ NoPartialEntity']_vars

\* C3's case: a to_model call failed while setting the many to many values,
\* after instance.save(), and the row it had saved is not in the database
C3_Witness ==
    \E p \in Procs :
        /\ pc[p] = "failed"
        /\ call[p].op = "to_model"
        /\ out[p].kind = "FieldError"
        /\ out[p].via = "m2m"
        /\ tx[p] = {}
        /\ RowsOf(db, "status", call[p].wire.id) = {}
        /\ \E q \in Procs \ {p} : pc[q] = "done" /\ db # {}


\* the origin a set_related_field call looks up
OriginOf(p) ==
    FindExistingByRemoteId(p, call[p].msg.origin_model,
                           call[p].msg.related_remote_id)

\* C4: whenever a worker executes the origin lookup of set_related_field for
\* a request that to_model dispatched, the origin entity with the carried
\* remote id is visible to it.
C4_OriginVisibleToWorker ==
    \A p \in Procs : pc[p] = "origin" => OriginOf(p) # NoRow

\* C5: when set_related_field returns, the target entity is persisted and its
\* foreign key references the origin the call looked up, whatever the model
\* of the origin (Status, or its subclass Review).
C5_RelationFieldSet ==
    [][\A p \in Procs :
         (pc[p] = "commit" /\ pc'[p] = "done") =>
            \E r \in db' :
               /\ r.type = call[p].model
               /\ r.pk = inst[p].pk
               /\ r.fk = call[p].origin]_vars

\* C6: a set_related_field call whose origin lookup finds no entity fails
\* with ValueError in that step, with the database as it was before the step
\* and nothing left written; and no step of a set_related_field call before
\* its commit changes the database, so the failed call has changed nothing.
C6_DanglingOriginNoWrite ==
    [][\A p \in Procs :
         (call[p].op = "set_related_field" /\ pc'[p] # pc[p]) =>
            /\ pc[p] # "commit" => db' = db
            /\ (pc[p] = "origin" /\ OriginOf(p) = NoRow) =>
                 /\ pc'[p] = "failed"
                 /\ out'[p].kind = "ValueError"
                 /\ tx[p] = {} /\ tx'[p] = {}
                 /\ db' = db]_vars

\* C6's case: a set_related_field call found no origin for its request (the
\* call that dispatched it has not committed) and has failed, with no image
\* persisted
C6_Witness ==
    \E p \in Procs :
        /\ pc[p] = "failed"
        /\ call[p].op = "set_related_field"
        /\ out[p].kind = "ValueError"
        /\ tx[p] = {}
        /\ \A r \in db : r.type # "Image"

\* C7: when two executions of set_related_field with the same arguments have
\* both returned, there is exactly one persisted target entity for the item
\* payload, and its foreign key references the origin.
C7_TaskIdempotent ==
    \A p, q \in Procs :
        ( /\ p # q
          /\ pc[p] = "done" /\ pc[q] = "done"
          /\ call[p].op = "set_related_field"
          /\ call[q].op = "set_related_field"
          /\ call[p].msg = call[q].msg ) =>
        LET targets == RowsOf(db, "image", call[p].msg.data.id)
        IN  /\ Cardinality(targets) = 1
            /\ \A r \in targets : r.fk = call[p].origin

\* C8: when two resolve_remote_id calls for the same identifier, neither a
\* refresh, have both fetched the same remote object and neither has failed
\* in the fetch or in a field conversion, both return the one persisted
\* entity: neither ends in the error of the storage layer's rejection.
C8_RacingResolversBothReturn ==
    \A p, q \in Procs :
        ( /\ p # q
          /\ call[p].op = "resolve_remote_id"
          /\ call[q].op = "resolve_remote_id"
          /\ call[p].remote_id = call[q].remote_id
          /\ ~call[p].refresh /\ ~call[q].refresh
          /\ call[p].wire # NoPayload
          /\ call[p].wire.id = call[q].wire.id
          /\ pc[p] \in {"done", "failed"} /\ pc[q] \in {"done", "failed"}
          /\ out[p].kind # "FieldError" /\ out[q].kind # "FieldError" ) =>
        /\ out[p].kind = "return" /\ out[q].kind = "return"
        /\ out[p].value.pk = out[q].value.pk

\* C9: a resolve_remote_id call with refresh=False whose lookup by remote id
\* finds an entity returns it in that step, with no fetch and no write; and
\* one whose lookup found none and whose fetched payload matches an entity
\* returns that entity as it is, with no write.
C9_ResolveHitNoWrite ==
    [][\A p \in Procs :
         ( /\ call[p].op = "resolve_remote_id"
           /\ ~call[p].refresh
           /\ pc'[p] # pc[p] ) =>
           LET byId == FindExistingByRemoteId(p, call[p].model,
                                              call[p].remote_id)
               byKey == FindExisting(p, call[p].model, call[p].wire.id)
           IN  /\ (pc[p] = "resolve" /\ byId # NoRow) =>
                    /\ pc'[p] = "done"
                    /\ out'[p].kind = "return" /\ out'[p].value = byId
                    /\ byId \in db'
                    /\ fetches'[p] = 0
                    /\ db' = db /\ tx' = tx
               /\ (pc[p] = "dedupe" /\ inst[p] = NoRow /\ byKey # NoRow) =>
                    /\ pc'[p] = "done"
                    /\ out'[p].kind = "return" /\ out'[p].value = byKey
                    /\ byKey \in db'
                    /\ db' = db /\ tx' = tx]_vars

\* C9's case: a resolve_remote_id call whose identifier no entity carried
\* has fetched a payload that matches an entity, and has returned that
\* entity, which is in the database as it was returned
C9_Witness ==
    \E p \in Procs :
        /\ pc[p] = "done"
        /\ call[p].op = "resolve_remote_id" /\ ~call[p].refresh
        /\ out[p].via = "find_existing" /\ fetches[p] = 1
        /\ out[p].value \in db
        /\ out[p].value.remote_id # call[p].remote_id
        /\ tx[p] = {}

\* C10: when get_data fails, resolve_remote_id ends in that step with an
\* ActivitySerializerError that carries the model's name and the identifier,
\* after exactly one fetch, with the database unchanged and nothing written.
C10_FetchFailure ==
    [][\A p \in Procs :
         (pc[p] = "get_data" /\ pc'[p] # "dedupe" /\ pc'[p] # pc[p]) =>
            /\ pc'[p] = "failed"
            /\ out'[p].kind = "ActivitySerializerError"
            /\ out'[p].model = call[p].model
            /\ out'[p].remote_id = call[p].remote_id
            /\ fetches'[p] = 1
            /\ db' = db /\ tx'[p] = {}]_vars

\* C10's case: a top-level resolve_remote_id call has failed in its fetch
C10_Witness ==
    \E p \in Procs :
        /\ pc[p] = "failed"
        /\ call[p].op = "resolve_remote_id"
        /\ out[p].kind = "ActivitySerializerError"
        /\ out[p].remote_id = call[p].remote_id
        /\ fetches[p] = 1

\* C12: a to_model call on an activity object that is no instance of the
\* model's activity_serializer fails in its first step with
\* ActivitySerializerError: the step holds no instance, leaves the database,
\* every transaction and the task queue as they were, and the call had
\* written nothing before it.
C12_WrongTypeFailsFirst ==
    [][\A p \in Procs :
         ( /\ pc[p] = "to_model" /\ pc'[p] # pc[p]
           /\ ~IsInstance(call[p].variant,
                          ActivitySerializer(call[p].model)) ) =>
            /\ pc'[p] = "failed"
            /\ out'[p].kind = "ActivitySerializerError"
            /\ inst'[p] = NoRow
            /\ tx[p] = {}
            /\ db' = db /\ tx' = tx /\ queue' = queue]_vars

\* C12's case: to_model(Review) on a Note has failed on the activity's class,
\* though an entity with the payload's id was there for the lookup to find
C12_Witness ==
    \E p \in Procs :
        /\ pc[p] = "failed"
        /\ call[p].op = "to_model"
        /\ call[p].model = "Review" /\ call[p].variant = "Note"
        /\ out[p].kind = "ActivitySerializerError"
        /\ out[p].via = "to_model"
        /\ \E r \in db : r.remote_id = call[p].wire.id

\* what a to_model call with save=False hands back in the step of the return
ReturnedInstance(p) ==
    IF call[p].op = "set_related_field" THEN inst'[p] ELSE out'[p].value

\* the image of an instance before to_model's loops: a new instance has
\* none, a found one that of its row
ImageBefore(p, instance) ==
    IF instance.pk = 0 THEN ""
    ELSE LET cur == {r \in Visible(p) : r.pk = instance.pk}
         IN  IF cur = {} THEN "" ELSE (CHOOSE r \in cur : TRUE).image

\* the frame of to_model(save=False): the instance is handed back as the
\* loops left it, not saved (no primary key given, nothing written), with no
\* many to many value set and no task dispatched, the database as it was
NotPersisted(p) ==
    /\ pc'[p] # "failed"
    /\ ReturnedInstance(p).pk = inst[p].pk
    /\ ReturnedInstance(p).remote_id = call[p].wire.id
    /\ ReturnedInstance(p).tags = inst[p].tags
    /\ queue' = queue
    /\ db' = db /\ tx' = tx

\* C18 as stated: to_model(save=False) returns after the scalar fields are
\* assigned, with no image field applied to the instance, the instance not
\* saved, no many to many value set, no task dispatched and the database as
\* it was.
C18_NoImageApplied ==
    [][\A p \in Procs :
         (pc[p] = "save" /\ ~call[p].save /\ pc'[p] # pc[p]) =>
            /\ NotPersisted(p)
            /\ ReturnedInstance(p).image = ImageBefore(p, inst[p])]_vars

\* C18, amended: to_model(save=False) returns the instance with its scalar
\* fields assigned and the payload's image fields applied to it (the image
\* loop runs before the return), the instance not saved, no many to many
\* value set, no task dispatched and the database as it was.
C18_ImageAppliedNotPersisted ==
    [][\A p \in Procs :
         (pc[p] = "save" /\ ~call[p].save /\ pc'[p] # pc[p]) =>
            /\ NotPersisted(p)
            /\ HasImageField(call[p].model) =>
                 ReturnedInstance(p).image = call[p].wire.v]_vars

\* C18's case: set_related_field holds the unsaved image that
\* to_model(save=False) built from inline data, with the payload's image on
\* it, and no image is persisted
C18_Witness ==
    \E p \in Procs :
        /\ pc[p] = "origin"
        /\ call[p].op = "set_related_field"
        /\ call[p].msg.data.kind = "dict"
        /\ inst[p].pk = 0
        /\ inst[p].image = call[p].wire.v /\ inst[p].image # ""
        /\ \A r \in db : r.type # "Image"

\* the status another entity would have to give way for: a visible row other
\* than `instance` that carries the payload's id
KeyHeldByOther(p, instance, wire) ==
    \E r \in Visible(p) :
        /\ r.pk # instance.pk
        /\ Table(r.type) = Table(instance.type)
        /\ r.remote_id = wire.id

\* C11: a resolve_remote_id call with refresh=True that finds an entity, by
\* the remote id or (when that finds none) by the fetched payload's key,
\* hands that entity to to_model as the instance, which looks up and creates
\* no other; the call keeps that primary key to its end; when it returns the
\* database is the one before with that one row updated from the payload
\* (same number of rows), and the row returned has the primary key of the
\* entity found.  The call fails only in the fetch, in a field conversion,
\* or with the storage layer's rejection when another entity carries the
\* payload's id, and a failure changes nothing.
C11_RefreshUpdatesInPlace ==
    [][\A p \in Procs :
         ( /\ call[p].op = "resolve_remote_id" /\ call[p].refresh
           /\ pc'[p] # pc[p] /\ ~Free(p) ) =>
           LET byId == FindExistingByRemoteId(p, call[p].model,
                                              call[p].remote_id)
               byKey == FindExisting(p, call[p].model, call[p].wire.id)
               old == {r \in db : r.pk = inst[p].pk}
           IN  /\ (pc[p] = "resolve" /\ byId # NoRow) =>
                    pc'[p] = "get_data" /\ inst'[p] = byId
               /\ (pc[p] = "dedupe" /\ inst[p] = NoRow /\ byKey # NoRow) =>
                    pc'[p] = "to_model" /\ inst'[p] = byKey
               /\ (pc[p] \in {"get_data", "dedupe", "to_model"}
                     /\ inst[p] # NoRow /\ pc'[p] # "failed") =>
                    inst'[p] = inst[p]
               /\ (pc[p] \in {"fields", "save", "m2m", "reverse"}
                     /\ inst[p].pk # 0 /\ pc'[p] # "failed") =>
                    inst'[p].pk = inst[p].pk
               /\ pc'[p] = "failed" =>
                    /\ db' = db
                    /\ \/ out'[p].kind = "ActivitySerializerError"
                             /\ pc[p] = "get_data"
                       \/ out'[p].kind = "FieldError"
                       \/ /\ out'[p].kind = "IntegrityError"
                          /\ KeyHeldByOther(p, inst[p], call[p].wire)
               /\ (pc[p] = "return" /\ old # {}) =>
                    /\ pc'[p] = "done"
                    /\ out'[p].value.pk = inst[p].pk
                    /\ Cardinality(db') = Cardinality(db)
                    /\ \E r \in old :
                          db' = (db \ {r}) \cup
                                  {[r EXCEPT !.remote_id = call[p].wire.id,
                                             !.content = call[p].wire.v,
                                             !.tags = call[p].wire.v]}]_vars

\* C11's case: resolve_remote_id(refresh=True) has returned the entity that
\* was persisted under its remote id before, updated to the other version of
\* the payload, and the database holds as many rows as it started with
C11_Witness ==
    \E p \in Procs :
        /\ pc[p] = "done"
        /\ call[p].op = "resolve_remote_id" /\ call[p].refresh
        /\ out[p].via = "to_model"
        /\ out[p].value.pk = 1
        /\ call[p].remote_id = "a" /\ call[p].wire.id = "a"
        /\ call[p].wire.v = "v2"
        /\ out[p].value \in db /\ out[p].value.content = "v2"
        /\ \A q \in Procs \ {p} : pc[q] = "idle"
        /\ Cardinality(db) = 2

\* the names a dataclass declares
Declared(fields) == {fields[j].name : j \in 1..Len(fields)}

\* the field a dataclass declares under a name
FieldNamed(fields, name) ==
    fields[CHOOSE j \in 1..Len(fields) : fields[j].name = name]

\* the fields with no default of either kind that a payload lacks
MissingFields(fields, kwargs) ==
    {j \in 1..Len(fields) :
        /\ fields[j].name \notin DOMAIN kwargs
        /\ fields[j].default = MISSING
        /\ fields[j].default_factory = MISSING}

\* what a default factory makes when it is called
Made(default_factory) == "made by the factory"

\* after __init__ with `absent` as the value of a field that the payload
\* lacks and that declares a default factory only: the error naming the
\* first field that is missing, and no object; or the object with exactly
\* the declared fields, each the payload's value, else its default
Constructed(absent) ==
    LET fields == returned.args.fields
        kwargs == returned.args.kwargs
        missing == MissingFields(fields, kwargs)
    IN  IF missing # {}
        THEN /\ returned.kind = "ActivitySerializerError"
             /\ \E j \in missing :
                   /\ returned.value = fields[j].name
                   /\ \A i \in missing : j <= i
             /\ self.class = None
        ELSE /\ returned.kind = "return"
             /\ self.class = "ActivityObject"
             /\ DOMAIN self.dict = Declared(fields)
             /\ \A k \in Declared(fields) :
                   self.dict[k] =
                     IF k \in DOMAIN kwargs THEN kwargs[k]
                     ELSE IF FieldNamed(fields, k).default # MISSING
                          THEN FieldNamed(fields, k).default
                          ELSE absent

\* C15 as stated: __init__ gives every declared field the payload's value,
\* else its declared default, be it a plain default or what its default
\* factory makes, else fails naming the field; keys that are no declared
\* fields are not on the object.
C15_DefaultOrFactory ==
    returned.op = "__init__" => Constructed(Made("the factory"))

\* what __init__ does instead: every declared field gets the payload's
\* value, else its plain default when it declares one; a field that declares
\* only a default factory and is not in the payload is MISSING on the object
\* (the factory is not called, and no error is raised); a field with neither
\* fails the construction with an error naming it; keys that are no declared
\* fields are not on the object.
C15_DefaultOrMissing ==
    returned.op = "__init__" => Constructed(MISSING)

\* the case of the default factory: an object built from a payload that has
\* the id and a key no field declares, and lacks a field with a default and a
\* field with a default factory
C15_Witness ==
    /\ returned.op = "__init__" /\ returned.kind = "return"
    /\ DOMAIN returned.args.kwargs = {"id", "@context"}
    /\ "@context" \notin DOMAIN self.dict
    /\ self.dict["id"] = "sent"
    /\ FieldNamed(self.fields, "type").default = "the default"
    /\ self.dict["type"] = "the default"
    /\ FieldNamed(self.fields, "tag").default_factory = "the factory"
    /\ self.dict["tag"] = MISSING

\* C19: a serialize call leaves the attributes of the object as they were,
\* and returns a dictionary of the declared fields with their values and
\* '@context'.
C19_SerializeNoSideEffect ==
    [][(self.class = "ActivityObject" /\ returned'.op = "serialize") =>
          /\ self'.dict = self.dict
          /\ DOMAIN returned'.value = Declared(self.fields) \cup {"@context"}
          /\ \A k \in Declared(self.fields) :
                returned'.value[k] = self.dict[k]
          /\ returned'.value["@context"] = ActivityStreams]_vars

\* the keys of an activity that carry the content of a status, its replies
\* and its addressing
ContentKeys ==
    {"content", "name", "rating", "attributedTo", "attachment",
     "inReplyToBook", "replies", "to", "cc"}

\* C13: for a status that is not deleted, with mentions M, the activity
\* to_activity produces is addressed as the table says: public to [Public]
\* cc [followers] + M; unlisted to [followers] cc [Public] + M; followers to
\* [followers] cc M; direct to M cc [].
C13_AddressingTable ==
    ( /\ returned.op = "to_activity"
      /\ returned.kind = "return"
      /\ ~self.deleted ) =>
        LET M == self.mention_users
            followers == Followers(self.user)
            activity == returned.value
        IN  /\ {"to", "cc"} \subseteq DOMAIN activity
            /\ self.privacy = "public" =>
                  /\ activity["to"] = <<Public>>
                  /\ activity["cc"] = <<followers>> \o M
            /\ self.privacy = "unlisted" =>
                  /\ activity["to"] = <<followers>>
                  /\ activity["cc"] = <<Public>> \o M
            /\ self.privacy = "followers" =>
                  /\ activity["to"] = <<followers>>
                  /\ activity["cc"] = M
            /\ self.privacy = "direct" =>
                  /\ activity["to"] = M
                  /\ activity["cc"] = <<>>

\* C13's case: an unlisted status that mentions two users has been
\* serialized
C13_Witness ==
    /\ returned.op = "to_activity" /\ returned.kind = "return"
    /\ ~self.deleted
    /\ self.privacy = "unlisted"
    /\ Len(self.mention_users) = 2
    /\ returned.value["to"] = <<Followers(self.user)>>
    /\ Len(returned.value["cc"]) = 3

\* C14: for a status marked deleted at T, to_activity, pure or not, gives a
\* Tombstone whose id and url are the remote id of the status and whose
\* deleted and published are T, with none of the content fields, no replies
\* and no to or cc.
C14_DeletedIsTombstone ==
    ( /\ returned.op = "to_activity"
      /\ self.deleted ) =>
        /\ returned.kind = "return"
        /\ DOMAIN returned.value \cap ContentKeys = {}
        /\ {"id", "url", "type", "deleted", "published"}
              \subseteq DOMAIN returned.value
        /\ returned.value["type"] = "Tombstone"
        /\ returned.value["id"] = self.remote_id
        /\ returned.value["url"] = self.remote_id
        /\ returned.value["deleted"] = IsoFormat(self.deleted_date)
        /\ returned.value["published"] = IsoFormat(self.deleted_date)

\* C14's case: a deleted review, published before it was deleted, has been
\* serialized for a non-bookwyrm instance
C14_Witness ==
    /\ returned.op = "to_activity" /\ returned.args.pure
    /\ self.class = "Review"
    /\ self.deleted
    /\ self.published_date # self.deleted_date
    /\ returned.value["type"] = "Tombstone"

\* the images of the books that have a cover
ImagesOf(books) ==
    LET covered == SelectSeq(books, LAMBDA b : b.cover # NoCover)
    IN  [i \in 1..Len(covered) |-> Image("https://example.com" \o
                                            covered[i].cover)]

\* C20: for a status that is not deleted, to_activity with pure=True gives
\* the pure type of the model, the pure content (and the pure name, for a
\* model with a name), an attachment list of exactly the images of the
\* tagged books with a cover and of the book of the status when that has a
\* cover, every entry an image, and the to and cc of pure=False.
C20_PureRendering ==
    ( /\ returned.op = "to_activity"
      /\ returned.args.pure
      /\ returned.kind = "return"
      /\ ~self.deleted ) =>
        LET activity == returned.value
            native == ToActivity(self, FALSE).value
        IN  /\ activity["type"] = PureType(self.class)
            /\ activity["content"] = PureContent(self).value
            /\ activity["content"] # self.content
            /\ HasName(self.class) =>
                  /\ activity["name"] = PureName(self)
                  /\ activity["name"] # self.name
            /\ activity["attachment"] =
                  ImagesOf(self.mention_books) \o
                  (IF HasBook(self.class) THEN ImagesOf(<<self.book>>)
                   ELSE <<>>)
            /\ \A i \in 1..Len(activity["attachment"]) :
                  activity["attachment"][i].type = "Image"
            /\ activity["to"] = native["to"]
            /\ activity["cc"] = native["cc"]

\* the persisted favorites with the identifier of the Like p handled
FavoritesOf(p) ==
    {r \in db : r.type = "Favorite" /\ r.remote_id = call[p].wire.id}

\* the persisted favorites of the same user and status under other
\* identifiers
OtherFavorites(p) ==
    {r \in db : /\ r.type = "Favorite"
                /\ r.user = RemoteUser.pk /\ r.fk = LocalStatus.pk
                /\ r.remote_id # call[p].wire.id}

\* exactly one favorite with the activity's id, of the existing user and the
\* existing status, and no second user or status
OneFavorite(p) ==
    /\ Cardinality(FavoritesOf(p)) = 1
    /\ \A r \in FavoritesOf(p) :
          r.user = RemoteUser.pk /\ r.fk = LocalStatus.pk
    /\ {r.pk : r \in {u \in db : u.type = "User"}} = {RemoteUser.pk}
    /\ {r \in db : r.type \in Subclasses("Status")} = {LocalStatus}

\* a Like has been handled, with or without an error
Handled(p) ==
    /\ call[p].op = "handle_favorite"
    /\ pc[p] \in {"done", "failed"}

StepsInOrder ==
    <<"fields", "images", "save", "m2m", "reverse", "return">>

\* the place of a step in that order
Rank(step) == CHOOSE i \in 1..Len(StepsInOrder) : StepsInOrder[i] = step

\* the instance p holds is saved: it has a primary key and its row is
\* written in p's transaction
Saved(p, instance) ==
    /\ instance.pk # 0
    /\ \E r \in tx[p] : r.pk = instance.pk

\* the many to many values the storage holds for the row of that primary
\* key, as p reads them
StoredTags(p, pk) ==
    LET cur == {r \in Visible(p) : r.pk = pk}
    IN  IF cur = {} THEN "" ELSE (CHOOSE r \in cur : TRUE).tags

\* p's step sets many to many fields: a row it writes carries other values
\* than the storage held for that row before the step (a save that reads
\* back what another transaction committed sets nothing)
SetsManyToMany(p) ==
    \E w \in tx'[p] : w.tags # StoredTags(p, w.pk)

\* C21: in a to_model call with save=True the scalar fields are assigned,
\* then the image fields applied, then the instance saved, then the many to
\* many fields set, then the reverse field tasks dispatched; no many to many
\* field is set and no task dispatched before the instance is saved.
C21_StepsInOrder ==
    [][\A p \in Procs :
         ( /\ call[p].op = "to_model" /\ call[p].save
           /\ pc[p] \in {"fields", "images", "save", "m2m", "reverse"}
           /\ pc'[p] # pc[p] /\ pc'[p] # "failed" ) =>
            /\ Rank(pc'[p]) = Rank(pc[p]) + 1
            /\ (inst'[p].content # inst[p].content
                  \/ inst'[p].remote_id # inst[p].remote_id) =>
                  pc[p] = "fields"
            /\ inst'[p].image # inst[p].image => pc[p] = "images"
            /\ (inst[p].pk = 0 /\ inst'[p].pk # 0) =>
                  /\ pc[p] \in {"images", "save"}
                  /\ pc[p] = "images" => HasImageField(call[p].model)
            /\ pc[p] = "save" =>
                  inst'[p].pk # 0 /\ inst'[p] \in tx'[p]
            /\ SetsManyToMany(p) =>
                  pc[p] = "m2m" /\ Saved(p, inst[p])
            /\ queue' # queue =>
                  /\ pc[p] = "reverse"
                  /\ Saved(p, inst[p])
                  /\ inst[p].tags = call[p].wire.v]_vars

\* C21's case: a to_model call on a status has gone through its steps and
\* dispatched its task, the status saved and not yet committed, after a call
\* that saved a user with its image
C21_Witness ==
    \E p \in Procs :
        /\ call[p].op = "to_model" /\ call[p].save
        /\ call[p].model \in OriginModels
        /\ pc[p] = "return"
        /\ queue # {}
        /\ Saved(p, inst[p])
        /\ inst[p].tags = call[p].wire.v
        /\ inst[p] \notin db
        /\ \E r \in db : r.type = "User" /\ r.image # "" /\ r.tags # ""

\* the field loop of p's to_model call ran, without an error
FieldLoopRan(p) ==
    /\ call[p].op = "to_model"
    /\ pc[p] = "fields" /\ pc'[p] = "save"

\* C22 as stated: the field loop skips a scalar field only when its value is
\* the absent marker; a null or empty value is assigned, so a payload with a
\* null field overwrites the value the entity had with null.
C22_NullAssigned ==
    [][\A p \in Procs :
         FieldLoopRan(p) =>
            inst'[p].content =
               IF call[p].wire.v = MISSING THEN inst[p].content
               ELSE call[p].wire.v]_vars

\* C22, amended: the field loop skips a scalar field when its value is the
\* absent marker or null, and assigns every other value, the empty one
\* included: a payload with a null field leaves the value the entity had, a
\* payload with an empty field overwrites it.
C22_NullSkipped ==
    [][\A p \in Procs :
         FieldLoopRan(p) =>
            inst'[p].content =
               IF call[p].wire.v \in {MISSING, None} THEN inst[p].content
               ELSE call[p].wire.v]_vars

\* C22's case: a payload with a null field was mapped onto a persisted
\* status, which kept its content, after a payload with an empty field
\* emptied the content of the other
C22_Witness ==
    \E p \in Procs :
        /\ call[p].op = "to_model" /\ pc[p] = "done"
        /\ call[p].wire.v = None
        /\ out[p].value \in db
        /\ out[p].value.pk # 0
        /\ out[p].value.content = "v1"
        /\ \E r \in db : r.pk # out[p].value.pk /\ r.content = ""

\* the committed rows a message names as its origin
CommittedOrigins(msg) ==
    {r \in db : /\ r.type \in Subclasses(msg.origin_model)
                /\ r.remote_id = msg.related_remote_id}

\* C23: no request outlives a to_model call that did not commit: whenever a
\* worker receives a set_related_field request, the origin entity the
\* request names is committed.
C23_DeliveredOriginCommitted ==
    [][\A p \in Procs :
         (pc[p] # "set_related_field" /\ pc'[p] = "set_related_field") =>
            CommittedOrigins(call'[p].msg) # {}]_vars

====
